---- MODULE Spec2Model ----
(***************************************************************************)
(* Owner-scoped resource access of the portfolio API.                      *)
(*                                                                         *)
(* One document collection of an owned resource type (chosen in Init, the  *)
(* collections are independent of each other) together with the users      *)
(* collection, a server clock and the response of the last call.           *)
(*                                                                         *)
(* Fields of an owned document: every resource type has a first key field  *)
(* (title / name / phone_number / study_type), modelled as "name", and a   *)
(* second field that is optional on create (company / website_url /        *)
(* summary / description ...), modelled as "aux", besides owner,           *)
(* created_at and updated_at.                                              *)
(***************************************************************************)
EXTENDS Integers, FiniteSets, Sequences, TLC

VARIABLES rtype, coll, nextId, users, nextUid, now, last, born, reqs,
          tokens, bearer

vars == <<rtype, coll, nextId, users, nextUid, now, last, born, reqs,
          tokens, bearer>>

\* the tokens issued so far and the token presented with the last call; the
\* handlers never write them
auth == <<tokens, bearer>>

(***************************************************************************)
(* Bounds                                                                  *)
(***************************************************************************)
MaxId == 2
MaxUid == 2
MaxTime == 2
MaxClock == 3
MaxReqs == 2
MaxTokens == 2

(***************************************************************************)
(* Input domains                                                           *)
(***************************************************************************)
Usernames == {"alice", "bob"}
NameVals == {"a", "b"}
AuxVals == {"x"}
Passwords == {"pw1", "pw2"}
Salts == {"s1", "s2"}
BadId == 0
ClientTime == 0
NoId == -1
DefaultLimit == 10
Limits == {0, 1, DefaultLimit}

Types == {"award", "basicinfo", "certification", "education", "experience",
          "interest", "project", "publication", "reference", "skill"}

Min(a, b) == IF a < b THEN a ELSE b

Restrict(f, S) == [k \in (DOMAIN f) \cap S |-> f[k]]

(***************************************************************************)
(* Per resource type behaviour                                             *)
(***************************************************************************)
\* status raised when the stored owner differs from the caller
OwnerMismatchStatus(t) ==
    CASE t \in {"project", "reference"} -> 403
      [] t = "certification" -> 409
      [] OTHER -> 401

\* how GET / starts: "owned" looks for one document of the caller in the
\* resource collection, "user" looks the caller up in the users collection,
\* "user404" does both, "call" calls the collection object, "none" has no
\* list endpoint
ListMode(t) ==
    CASE t \in {"award", "certification"} -> "owned"
      [] t \in {"education", "interest", "publication", "reference"} -> "user"
      [] t \in {"experience", "project"} -> "user404"
      [] t = "skill" -> "call"
      [] OTHER -> "none"

\* the filter of create_experience used for every resource type
KeyMatchPair(t, doc, p) == doc.name = p.name /\ doc.aux = p.aux

\* the find_one filter of create
KeyMatch(t, doc, p) ==
    CASE t = "experience" -> doc.name = p.name /\ doc.aux = p.aux
      [] t = "basicinfo" -> doc.name = p.name \/ doc.aux = p.aux
      [] OTHER -> doc.name = p.name

\* fields of the create schema
CreateSchema(t) ==
    IF t = "basicinfo"
    THEN {"name", "aux", "owner", "created_at", "updated_at"}
    ELSE {"name", "aux"}

\* an update schema that also declares owner
UpdateSchemaWithOwner(t) == {"name", "aux", "owner", "created_at", "updated_at"}

\* fields of the update schema
UpdateSchema(t) ==
    IF t \in {"project", "education", "experience", "reference"}
    THEN {"name", "aux", "updated_at"}
    ELSE {"name", "aux", "created_at", "updated_at"}

Empty == [i \in {} |-> 0]

(***************************************************************************)
(* Documents                                                               *)
(***************************************************************************)
NoTime == -1

\* XxxInDB(**data.model_dump()): the create schema keeps its own fields and
\* fills "aux" with its default; owner and the timestamps start at the
\* defaults of the base class unless the create schema carries them
InDB(t, raw) ==
    LET p == Restrict(raw, CreateSchema(t))
        get(k, d) == IF k \in DOMAIN p THEN p[k] ELSE d
    IN  [name |-> p.name,
         aux |-> get("aux", ""),
         owner |-> get("owner", ""),
         created_at |-> get("created_at", NoTime),
         updated_at |-> get("updated_at", NoTime)]

\* model_dump() without exclude_unset: the omitted keys come with the
\* defaults of the update schema
InUpdateDefaults(t, raw) ==
    [k \in UpdateSchema(t) |->
        IF k \in DOMAIN raw THEN raw[k]
        ELSE CASE k = "name" -> "null"
               [] k = "aux" -> ""
               [] OTHER -> NoTime]

\* XxxInUpdate(**data.model_dump(exclude_unset=True)): only the keys of the
\* request body that the update schema knows, without its defaults
InUpdate(t, raw) == Restrict(raw, UpdateSchema(t))

\* updated_at set only when the request body has none
UpdateDumpKeep(upd, t) ==
    [k \in ((DOMAIN upd) \cup {"updated_at"}) \ {"created_at"} |->
        IF k \in DOMAIN upd THEN upd[k] ELSE t]

\* model_dump(exclude_unset=True) without exclude={"created_at"}
UpdateDumpAll(upd, t) ==
    [k \in (DOMAIN upd) \cup {"updated_at"} |->
        IF k = "updated_at" THEN t ELSE upd[k]]

\* x.updated_at = now; x.model_dump(exclude={"created_at"}, exclude_unset=True)
UpdateDump(upd, t) ==
    [k \in ((DOMAIN upd) \cup {"updated_at"}) \ {"created_at"} |->
        IF k = "updated_at" THEN t ELSE upd[k]]

\* an operator that clears a text field which already holds the new value
MongoToggle(doc, setdoc) ==
    [k \in (DOMAIN doc) \cup (DOMAIN setdoc) |->
        IF k \notin DOMAIN setdoc THEN doc[k]
        ELSE IF k \in {"name", "aux", "bio"} /\ k \in DOMAIN doc /\ doc[k] = setdoc[k]
        THEN ""
        ELSE setdoc[k]]

\* update_one({"_id": id}, {"$set": setdoc}) on one document
MongoSet(doc, setdoc) ==
    [k \in (DOMAIN doc) \cup (DOMAIN setdoc) |->
        IF k \in DOMAIN setdoc THEN setdoc[k] ELSE doc[k]]

\* collection.find({}) without the owner filter
OwnedIdsAll(c, username) == DOMAIN c

\* collection.find({"owner": username}), in insertion order
OwnedIds(c, username) == {i \in DOMAIN c : c[i].owner = username}

\* cursor.limit(n): 0 means no limit
RECURSIVE FirstN(_, _)
FirstN(S, n) ==
    IF S = {} \/ n = 0 THEN {}
    ELSE LET m == CHOOSE i \in S : \A j \in S : i <= j
         IN  {m} \cup FirstN(S \ {m}, n - 1)

LimitIds(S, n) == IF n = 0 THEN S ELSE FirstN(S, n)

Body(c, S) == {<<i, c[i]>> : i \in S}

\* delete_many with the owner of the matched documents as its filter
delete_many_owner(c, S) ==
    [i \in {j \in DOMAIN c : \A k \in S \cap DOMAIN c : c[j].owner # c[k].owner}
        |-> c[i]]

\* delete_one({"_id": id}): S holds the id
delete_one(c, S) == [i \in (DOMAIN c) \ S |-> c[i]]

(***************************************************************************)
(* Auth gate: get_current_user                                             *)
(***************************************************************************)
UsersNamed(u, sub) == {i \in DOMAIN u : u[i].username = sub}

FirstUser(u, sub) == CHOOSE i \in UsersNamed(u, sub) : \A j \in UsersNamed(u, sub) : i <= j

get_current_user(u, sub) ==
    IF UsersNamed(u, sub) = {} THEN "PrincipalNotFound"
    ELSE IF u[FirstUser(u, sub)].disabled THEN "AccountDisabled"
    ELSE "ok"

\* the account a call acts for: the one the gate resolves the subject to
Account(u, sub) == IF UsersNamed(u, sub) = {} THEN NoId ELSE FirstUser(u, sub)

\* the record of a call: the request, the response and whether the call
\* repeats the update that was answered just before it
Reply(op, sub, id, raw, status, body) ==
    [op |-> op, sub |-> sub, id |-> id, raw |-> raw, status |-> status,
     body |-> body,
     again |-> /\ op \in {"update", "update_user"}
               /\ last.op = op /\ last.sub = sub /\ last.id = id
               /\ last.raw = raw /\ last.status = 200 /\ status = 200]

\* the request is rejected before the handler body runs
Rejected(op, sub, id, raw) ==
    /\ get_current_user(users, sub) # "ok"
    /\ last' = Reply(op, sub, id, raw, 401,
                     {<<NoId, [detail |-> get_current_user(users, sub)]>>})
    /\ UNCHANGED <<rtype, coll, nextId, users, nextUid, now, born, reqs>>

(***************************************************************************)
(* Owned resource handlers                                                 *)
(***************************************************************************)
\* the two datetime.now() calls of create: the clock may advance between them
Later(t) == {t} \cup (t .. Min(t + 1, MaxTime))

\* find_one with the uniqueness filter of the resource type
Existing(raw) == \E i \in DOMAIN coll : KeyMatch(rtype, coll[i], InDB(rtype, raw))

\* the part of create up to the answer of find_one, when it ends the call
create_check(sub, raw) ==
    \/ Rejected("create", sub, NoId, raw)
    \/ /\ get_current_user(users, sub) = "ok"
       /\ Existing(raw)
       /\ last' = Reply("create", sub, NoId, raw, 409, {})
       /\ UNCHANGED <<rtype, coll, nextId, users, nextUid, now, born, reqs>>

\* the part of create after find_one found nothing
insert_one(sub, raw) ==
    /\ nextId <= MaxId
    /\ \E t2 \in Later(now) :
         LET doc == [InDB(rtype, raw) EXCEPT !.owner = sub,
                         !.created_at = now, !.updated_at = t2]
         IN  /\ coll' = (nextId :> doc) @@ coll
             /\ born' = [born EXCEPT !.res =
                           (nextId :> [owner |-> sub, created_at |-> now,
                                       uid |-> Account(users, sub)]) @@ @]
             /\ now' = t2
    /\ nextId' = nextId + 1
    /\ last' = Reply("create", sub, nextId, raw, 201, {})
    /\ UNCHANGED <<rtype, users, nextUid>>

create(sub, raw) ==
    \/ create_check(sub, raw)
    \/ /\ get_current_user(users, sub) = "ok"
       /\ ~ Existing(raw)
       /\ insert_one(sub, raw)
       /\ UNCHANGED reqs

\* the owner compared before the document is known to exist
PrecheckForbiddenFirst(sub, id) ==
    IF id = BadId THEN 400
    ELSE IF id \notin DOMAIN coll \/ coll[id].owner # sub
    THEN OwnerMismatchStatus(rtype)
    ELSE 200

\* a missing document reported as a bad id
PrecheckNotFoundAs400(sub, id) ==
    IF id = BadId \/ id \notin DOMAIN coll THEN 400
    ELSE IF coll[id].owner # sub THEN OwnerMismatchStatus(rtype)
    ELSE 200

\* the checks shared by GET /{id}, PATCH /{id} and DELETE /{id}
Precheck(sub, id) ==
    IF id = BadId THEN 400
    ELSE IF id \notin DOMAIN coll THEN 404
    ELSE IF coll[id].owner # sub THEN OwnerMismatchStatus(rtype)
    ELSE 200

get(sub, id) ==
    \/ Rejected("get", sub, id, Empty)
    \/ /\ get_current_user(users, sub) = "ok"
       /\ last' = Reply("get", sub, id, Empty, Precheck(sub, id),
                        IF Precheck(sub, id) = 200 THEN Body(coll, {id}) ELSE {})
       /\ UNCHANGED <<rtype, coll, nextId, users, nextUid, now, born, reqs>>

list(sub, limits) ==
    \/ Rejected("list", sub, NoId, Empty)
    \/ /\ get_current_user(users, sub) = "ok"
       /\ ListMode(rtype) # "none"
       /\ LET mine == OwnedIds(coll, sub)
              status ==
                CASE ListMode(rtype) = "call" -> 500
                  [] ListMode(rtype) = "owned" /\ mine = {} -> 403
                  [] ListMode(rtype) \in {"user", "user404"}
                       /\ UsersNamed(users, sub) = {} -> 403
                  [] ListMode(rtype) = "user404" /\ mine = {} -> 404
                  [] OTHER -> 200
              found == IF rtype = "project" THEN LimitIds(mine, limits) ELSE mine
          IN  last' = Reply("list", sub, NoId,
                            IF rtype = "project" THEN [limits |-> limits] ELSE Empty,
                            status,
                            IF status = 200 THEN Body(coll, found) ELSE {})
       /\ UNCHANGED <<rtype, coll, nextId, users, nextUid, now, born, reqs>>

update(sub, id, raw) ==
    \/ Rejected("update", sub, id, raw)
    \/ /\ get_current_user(users, sub) = "ok"
       /\ Precheck(sub, id) # 200
       /\ last' = Reply("update", sub, id, raw, Precheck(sub, id), {})
       /\ UNCHANGED <<rtype, coll, nextId, users, nextUid, now, born, reqs>>
    \/ /\ get_current_user(users, sub) = "ok"
       /\ Precheck(sub, id) = 200
       /\ coll' = [coll EXCEPT ![id] =
                      MongoSet(@, UpdateDump(InUpdate(rtype, raw), now))]
       /\ last' = Reply("update", sub, id, raw, 200, {})
       /\ UNCHANGED <<rtype, nextId, users, nextUid, now, born, reqs>>

delete(sub, id) ==
    \/ Rejected("delete", sub, id, Empty)
    \/ /\ get_current_user(users, sub) = "ok"
       /\ Precheck(sub, id) # 200
       /\ last' = Reply("delete", sub, id, Empty, Precheck(sub, id), {})
       /\ UNCHANGED <<rtype, coll, nextId, users, nextUid, now, born, reqs>>
    \/ /\ get_current_user(users, sub) = "ok"
       /\ Precheck(sub, id) = 200
       /\ coll' = delete_one(coll, {id})
       /\ last' = Reply("delete", sub, id, Empty, 204, {})
       /\ UNCHANGED <<rtype, nextId, users, nextUid, now, born, reqs>>

Tick ==
    /\ now < MaxTime
    /\ now' = now + 1
    /\ UNCHANGED <<rtype, coll, nextId, users, nextUid, last, born, reqs>>
    /\ UNCHANGED auth

(***************************************************************************)
(* Password hasher and user handlers                                       *)
(***************************************************************************)
\* pwd_context.hash: bcrypt with a fresh random salt
get_hashed_password(password, salt) ==
    [hashed |-> TRUE, salt |-> salt, plain |-> password]

\* a password value stored as it was supplied
Plain(password) == [hashed |-> FALSE, salt |-> "", plain |-> password]

\* UserInCreate.username_to_lower
username_to_lower(v) ==
    CASE v = "Alice" -> "alice"
      [] v = "Bob" -> "bob"
      [] OTHER -> v

UserUpdateSchema ==
    {"username", "email", "password", "bio", "disabled", "created_at", "updated_at"}

\* find_one({"$or": [{"username": ...}, {"email": ...}]})
ExistingUser(user) ==
    \E i \in DOMAIN users : \/ users[i].username = user.username
                            \/ users[i].email = user.email

\* UserInCreate(...): the validated request body
UserInCreate(raw) == [raw EXCEPT !.username = username_to_lower(raw.username)]

create_user_check(raw) ==
    /\ ExistingUser(UserInCreate(raw))
    /\ last' = Reply("create_user", UserInCreate(raw).username, NoId,
                     UserInCreate(raw), 409, {})
    /\ UNCHANGED <<rtype, coll, nextId, users, nextUid, now, born, reqs>>

insert_user(raw, salt) ==
    LET user == UserInCreate(raw)
    IN  /\ nextUid <= MaxUid
        /\ users' = (nextUid :>
                        [username |-> user.username,
                         email |-> user.email,
                         password |-> get_hashed_password(user.password, salt),
                         bio |-> "",
                         disabled |-> FALSE,
                         created_at |-> now,
                         updated_at |-> NoTime]) @@ users
        /\ born' = [born EXCEPT !.usr = (nextUid :> [created_at |-> now]) @@ @]
        /\ nextUid' = nextUid + 1
        /\ last' = Reply("create_user", user.username, nextUid, user, 201, {})
        /\ UNCHANGED <<rtype, coll, nextId, now>>

create_user(raw, salt) ==
    \/ create_user_check(raw)
    \/ /\ ~ ExistingUser(UserInCreate(raw))
       /\ insert_user(raw, salt)
       /\ UNCHANGED reqs

UserPrecheck(sub, id) ==
    IF id = BadId THEN 400
    ELSE IF id \notin DOMAIN users THEN 404
    ELSE IF users[id].username # sub THEN 403
    ELSE 200

\* if user_update.password: user_update.password = get_hashed_password(...)
HashIfSet(upd, salt) ==
    IF "password" \in DOMAIN upd /\ upd.password \notin {"", "null"}
    THEN [upd EXCEPT !.password = get_hashed_password(@, salt)]
    ELSE IF "password" \in DOMAIN upd
    THEN [upd EXCEPT !.password = Plain(@)]
    ELSE upd

update_user(sub, id, raw, salt) ==
    \/ Rejected("update_user", sub, id, raw)
    \/ /\ get_current_user(users, sub) = "ok"
       /\ UserPrecheck(sub, id) # 200
       /\ last' = Reply("update_user", sub, id, raw, UserPrecheck(sub, id), {})
       /\ UNCHANGED <<rtype, coll, nextId, users, nextUid, now, born, reqs>>
    \/ /\ get_current_user(users, sub) = "ok"
       /\ UserPrecheck(sub, id) = 200
       /\ users' = [users EXCEPT ![id] =
                    MongoSet(@, UpdateDump(
                        HashIfSet(Restrict(raw, UserUpdateSchema), salt), now))]
       /\ last' = Reply("update_user", sub, id, raw, 200, {})
       /\ UNCHANGED <<rtype, coll, nextId, nextUid, now, born, reqs>>

delete_user(sub, id) ==
    \/ Rejected("delete_user", sub, id, Empty)
    \/ /\ get_current_user(users, sub) = "ok"
       /\ UserPrecheck(sub, id) # 200
       /\ last' = Reply("delete_user", sub, id, Empty, UserPrecheck(sub, id), {})
       /\ UNCHANGED <<rtype, coll, nextId, users, nextUid, now, born, reqs>>
    \/ /\ get_current_user(users, sub) = "ok"
       /\ UserPrecheck(sub, id) = 200
       /\ users' = delete_one(users, {id})
       /\ last' = Reply("delete_user", sub, id, Empty, 204, {})
       /\ UNCHANGED <<rtype, coll, nextId, nextUid, now, born, reqs>>

(***************************************************************************)
(* Token service and login                                                 *)
(***************************************************************************)
\* a lifetime of one day
ACCESS_TOKEN_EXPIRE_DAY == 60 * 24

ACCESS_TOKEN_EXPIRE_MINUTES == 60 * 24 * 7

\* timedelta(minutes=m), in seconds
timedelta(m) == m * 60

\* the clock is read at steps of three and a half days
TickSeconds == 84 * 60 * 60

Seconds(t) == t * TickSeconds

\* issue: the subject and the absolute expiry, now + ttl; uid is the account
\* the token was issued to, which the token itself does not carry
create_access_token(data, expires_delta, uid) ==
    [sub |-> data.username, iat |-> Seconds(now),
     exp |-> Seconds(now) + expires_delta, uid |-> uid]

\* a verification that still accepts at the instant of expiry
verify_late(tok, t) == IF Seconds(t) > tok.exp THEN "Expired" ELSE "ok"

\* verify: Expired when now >= expires_at
verify(tok, t) == IF Seconds(t) >= tok.exp THEN "Expired" ELSE "ok"

\* pwd_context.verify: True or False for a hash of the configured scheme,
\* False for None, and an exception (UnknownHashError, a ValueError) for a
\* string that is not such a hash; the function has no try of its own
verify_password(plain_password, hashed_password) ==
    IF hashed_password.hashed
    THEN IF hashed_password.plain = plain_password THEN "True" ELSE "False"
    ELSE IF hashed_password.plain = "null" THEN "False"
    ELSE "raises"

\* what authenticate_user gives when verify_password raised
Raised == -2

\* authenticate: the account with the case-normalized username when the
\* password verifies against its hash, NoId otherwise; an exception of the
\* verification passes through
authenticate_user(username, password) ==
    LET name == username_to_lower(username)
        verified == verify_password(password, users[FirstUser(users, name)].password)
    IN  IF UsersNamed(users, name) = {} THEN NoId
        ELSE CASE verified = "True" -> FirstUser(users, name)
               [] verified = "False" -> NoId
               [] OTHER -> Raised

\* a failure response that tells an unknown username from a wrong password
login_failure_by_cause(username) ==
    IF UsersNamed(users, username_to_lower(username)) = {}
    THEN [status |-> 404, detail |-> "User not found.", header |-> "Bearer"]
    ELSE [status |-> 403, detail |-> "Invalid credentials.", header |-> "Bearer"]

\* the HTTPException raised when authenticate_user returns nothing
login_failure(username) ==
    [status |-> 403, detail |-> "Invalid credentials.", header |-> "Bearer"]

login_for_access_token(username, password) ==
    LET db_user == authenticate_user(username, password)
        raw == [username |-> username, password |-> password]
        access_token == create_access_token([username |-> username],
                            timedelta(ACCESS_TOKEN_EXPIRE_MINUTES), db_user)
    IN  /\ \/ /\ db_user = NoId
              /\ last' = Reply("login", username, NoId, raw,
                               login_failure(username).status,
                               {<<NoId, [detail |-> login_failure(username).detail,
                                         header |-> login_failure(username).header]>>})
              /\ UNCHANGED tokens
           \/ /\ db_user = Raised
              /\ last' = Reply("login", username, NoId, raw, 500, {})
              /\ UNCHANGED tokens
           \/ /\ db_user \notin {NoId, Raised}
              /\ access_token \in tokens \/ Cardinality(tokens) < MaxTokens
              /\ tokens' = tokens \cup {access_token}
              /\ last' = Reply("login", username, NoId, raw, 200,
                               {<<NoId, [access_token |-> access_token,
                                         token_type |-> "bearer"]>>})
        /\ UNCHANGED <<rtype, coll, nextId, users, nextUid, now, born, reqs, bearer>>

\* the request carries a token whose verification fails
Unauthenticated(op, tok, id, raw) ==
    /\ verify(tok, now) # "ok"
    /\ last' = Reply(op, tok.sub, id, raw, 401,
                     {<<NoId, [detail |-> verify(tok, now)]>>})
    /\ UNCHANGED <<rtype, coll, nextId, users, nextUid, now, born, reqs>>

(***************************************************************************)
(* Calls: the handlers with their inputs drawn from the given sets         *)
(***************************************************************************)
\* no token was presented
NoToken == [sub |-> "", iat |-> 0, exp |-> 0, uid |-> NoId]

Init ==
    /\ rtype \in Types
    /\ coll = Empty
    /\ nextId = 1
    /\ users = Empty
    /\ nextUid = 1
    /\ now = 1
    /\ last = [op |-> "none", sub |-> "", id |-> NoId, raw |-> Empty,
               status |-> 0, body |-> {}, again |-> FALSE]
    /\ born = [res |-> Empty, usr |-> Empty]
    /\ reqs = Empty
    /\ tokens = {}
    /\ bearer = NoToken

Ids == {BadId} \cup (1 .. MaxId)
Uids == {BadId} \cup (1 .. MaxUid)

\* a request body: the keys D of a full body
Pick(full, D) == Restrict(full, D)

FullBody(n, a) ==
    [name |-> n, aux |-> a, owner |-> "eve",
     created_at |-> ClientTime, updated_at |-> ClientTime]

EmailOf(u) == IF username_to_lower(u) = "alice" THEN "alice@x" ELSE "bob@x"

CallCreate(subs, bodies) ==
    /\ \E sub \in subs, raw \in bodies : create(sub, raw)
    /\ UNCHANGED auth

CallGet(subs, ids) ==
    /\ \E sub \in subs, id \in ids : get(sub, id)
    /\ UNCHANGED auth

CallList(subs, limits) ==
    /\ \E sub \in subs, n \in limits : list(sub, n)
    /\ UNCHANGED auth

CallUpdate(subs, ids, bodies) ==
    /\ \E sub \in subs, id \in ids, raw \in bodies : update(sub, id, raw)
    /\ UNCHANGED auth

CallDelete(subs, ids) ==
    /\ \E sub \in subs, id \in ids : delete(sub, id)
    /\ UNCHANGED auth

CallCreateUser(names, passwords, salts) ==
    /\ \E u \in names, p \in passwords, salt \in salts :
         create_user([username |-> u, email |-> EmailOf(u), password |-> p], salt)
    /\ UNCHANGED auth

CallUpdateUser(subs, ids, bodies, salts) ==
    /\ \E sub \in subs, id \in ids, raw \in bodies, salt \in salts :
         update_user(sub, id, raw, salt)
    /\ UNCHANGED auth

CallDeleteUser(subs, ids) ==
    /\ \E sub \in subs, id \in ids : delete_user(sub, id)
    /\ UNCHANGED auth

(***************************************************************************)
(* Spec: sequential calls of two principals on one collection              *)
(***************************************************************************)
Creates ==
    {Pick(FullBody("a", "x"), {"name"}),
     Pick(FullBody("b", "x"), {"name"}),
     Pick(FullBody("b", "x"), {"name", "owner"})}

Renames ==
    {Pick(FullBody("b", "x"), {"name"}),
     Pick(FullBody("b", "x"), {"name", "owner"})}

Next ==
    \/ CallCreateUser(Usernames, {"pw1"}, {"s1"})
    \/ CallCreate(Usernames, Creates)
    \/ CallGet(Usernames, Ids)
    \/ CallList(Usernames, Limits)
    \/ CallUpdate(Usernames, Ids, Renames)
    \/ CallDelete(Usernames, Ids)

Spec == Init /\ [][Next]_vars

(***************************************************************************)
(* SpecData: one principal's calls with varied request bodies, and the     *)
(* server clock                                                            *)
(***************************************************************************)
AllKeys == {"name", "aux", "owner", "created_at", "updated_at"}

DataCreates ==
    {Pick(FullBody("a", "x"), {"name"}),
     Pick(FullBody("a", "x"), {"name", "aux"}),
     Pick(FullBody("b", "x"), {"name", "aux"}),
     Pick(FullBody("b", "x"), AllKeys)}

DataPatches ==
    {Empty,
     Pick(FullBody("b", "x"), {"name"}),
     Pick(FullBody("a", ""), {"aux"}),
     Pick(FullBody("a", "x"), AllKeys)}

FullUserBody(p) ==
    [username |-> "alice", password |-> p, bio |-> "hi", disabled |-> TRUE,
     created_at |-> ClientTime, updated_at |-> ClientTime]

UserPatches ==
    {Pick(FullUserBody("pw2"), {"password"}),
     Pick(FullUserBody("pw2"), {"bio", "created_at", "updated_at"})}

NextData ==
    \/ CallCreateUser({"alice"}, {"pw1"}, {"s1"})
    \/ CallCreate({"alice"}, DataCreates)
    \/ CallUpdate({"alice"}, 1 .. MaxId, DataPatches)
    \/ CallUpdateUser({"alice"}, 1 .. MaxUid, UserPatches, Salts)
    \/ Tick

SpecData == Init /\ [][NextData]_vars

(***************************************************************************)
(* SpecConc: create calls that overlap.  A handler runs up to its next     *)
(* await in one step; reqs holds the calls whose find_one found nothing    *)
(* and whose insert_one is still to come.                                  *)
(***************************************************************************)
FreeSlot == CHOOSE r \in 1 .. MaxReqs : r \notin DOMAIN reqs

\* a call suspended at the await of its store write: pc is the await it is
\* at, fault whether that write is going to raise, matched whether the
\* update_one it issued found its document
Pending(op, sub, id, raw) ==
    [op |-> op, sub |-> sub, id |-> id, raw |-> raw,
     pc |-> "write", fault |-> FALSE, matched |-> FALSE]

\* success statuses of the three writing operations
Success(op) ==
    CASE op = "create" -> 201
      [] op = "update" -> 200
      [] op = "delete" -> 204

\* an except clause that swallows the exception of the store
write_status_swallowed(op, raised, found) ==
    IF op = "update" /\ ~ found /\ ~ raised THEN 500 ELSE Success(op)

\* how the handler ends after its write: the except clause (or, where the
\* handler has none, the framework) turns an exception into 500, and an
\* update whose find_one after the write returns nothing ends in 500 too
write_status(op, raised, found) ==
    IF raised THEN 500
    ELSE IF op = "update" /\ ~ found THEN 500
    ELSE Success(op)

Without(f, k) == [i \in (DOMAIN f) \ {k} |-> f[i]]

create_begin(sub, raw) ==
    \/ create_check(sub, raw)
    \/ /\ get_current_user(users, sub) = "ok"
       /\ ~ Existing(raw)
       /\ \E r \in 1 .. MaxReqs : r \notin DOMAIN reqs
       /\ reqs' = (FreeSlot :> Pending("create", sub, NoId, raw)) @@ reqs
       /\ UNCHANGED <<rtype, coll, nextId, users, nextUid, now, last, born>>

\* the write of a suspended call raised: nothing is stored
write_raised(r) ==
    /\ reqs[r].fault
    /\ last' = Reply(reqs[r].op, reqs[r].sub, reqs[r].id, reqs[r].raw,
                     write_status(reqs[r].op, TRUE, FALSE), {})
    /\ reqs' = Without(reqs, r)
    /\ UNCHANGED <<rtype, coll, nextId, users, nextUid, now, born>>

create_finish(r) ==
    /\ reqs[r].op = "create"
    /\ \/ write_raised(r)
       \/ /\ ~ reqs[r].fault
          /\ insert_one(reqs[r].sub, reqs[r].raw)
          /\ reqs' = Without(reqs, r)

create_user_begin(raw) ==
    \/ create_user_check(raw)
    \/ /\ ~ ExistingUser(UserInCreate(raw))
       /\ \E r \in 1 .. MaxReqs : r \notin DOMAIN reqs
       /\ reqs' = (FreeSlot :> Pending("create_user", "", NoId, raw)) @@ reqs
       /\ UNCHANGED <<rtype, coll, nextId, users, nextUid, now, last, born>>

create_user_finish(r, salt) ==
    /\ reqs[r].op = "create_user"
    /\ insert_user(reqs[r].raw, salt)
    /\ reqs' = Without(reqs, r)

NextConc ==
    \/ /\ \E u \in Usernames :
            create_user_begin([username |-> u, email |-> EmailOf(u), password |-> "pw1"])
       /\ UNCHANGED auth
    \/ /\ \E r \in DOMAIN reqs : create_user_finish(r, "s1")
       /\ UNCHANGED auth
    \/ /\ \E sub \in Usernames, raw \in Creates : create_begin(sub, raw)
       /\ UNCHANGED auth
    \/ /\ \E r \in DOMAIN reqs : create_finish(r)
       /\ UNCHANGED auth

SpecConc == Init /\ [][NextConc]_vars

(***************************************************************************)
(* SpecRace: update and delete calls that overlap with each other and with *)
(* create, and store writes that raise.  update suspends at update_one and *)
(* again at the find_one that follows it; delete suspends at delete_one.   *)
(***************************************************************************)
\* update up to the await of update_one
update_begin(sub, id, raw) ==
    \/ Rejected("update", sub, id, raw)
    \/ /\ get_current_user(users, sub) = "ok"
       /\ Precheck(sub, id) # 200
       /\ last' = Reply("update", sub, id, raw, Precheck(sub, id), {})
       /\ UNCHANGED <<rtype, coll, nextId, users, nextUid, now, born, reqs>>
    \/ /\ get_current_user(users, sub) = "ok"
       /\ Precheck(sub, id) = 200
       /\ \E r \in 1 .. MaxReqs : r \notin DOMAIN reqs
       /\ reqs' = (FreeSlot :> Pending("update", sub, id, raw)) @@ reqs
       /\ UNCHANGED <<rtype, coll, nextId, users, nextUid, now, last, born>>

\* update_one({"_id": id}, {"$set": ...}): a filter that matches nothing
\* changes nothing and raises nothing
update_write(r) ==
    LET id == reqs[r].id
    IN  /\ reqs[r].op = "update" /\ reqs[r].pc = "write" /\ ~ reqs[r].fault
        /\ coll' = IF id \in DOMAIN coll
                   THEN [coll EXCEPT ![id] =
                           MongoSet(@, UpdateDump(InUpdate(rtype, reqs[r].raw), now))]
                   ELSE coll
        /\ reqs' = [reqs EXCEPT ![r].pc = "reply",
                                ![r].matched = id \in DOMAIN coll]
        /\ UNCHANGED <<rtype, nextId, users, nextUid, now, last, born>>

\* the find_one after update_one and the response
update_finish(r) ==
    /\ reqs[r].op = "update"
    /\ \/ reqs[r].pc = "write" /\ write_raised(r)
       \/ /\ reqs[r].pc = "reply"
          /\ last' = Reply("update", reqs[r].sub, reqs[r].id, reqs[r].raw,
                           write_status("update", FALSE, reqs[r].id \in DOMAIN coll),
                           {})
          /\ reqs' = Without(reqs, r)
          /\ UNCHANGED <<rtype, coll, nextId, users, nextUid, now, born>>

\* delete up to the await of delete_one
delete_begin(sub, id) ==
    \/ Rejected("delete", sub, id, Empty)
    \/ /\ get_current_user(users, sub) = "ok"
       /\ Precheck(sub, id) # 200
       /\ last' = Reply("delete", sub, id, Empty, Precheck(sub, id), {})
       /\ UNCHANGED <<rtype, coll, nextId, users, nextUid, now, born, reqs>>
    \/ /\ get_current_user(users, sub) = "ok"
       /\ Precheck(sub, id) = 200
       /\ \E r \in 1 .. MaxReqs : r \notin DOMAIN reqs
       /\ reqs' = (FreeSlot :> Pending("delete", sub, id, Empty)) @@ reqs
       /\ UNCHANGED <<rtype, coll, nextId, users, nextUid, now, last, born>>

\* delete_one({"_id": id}) and the response: the result of delete_one is
\* not looked at
delete_finish(r) ==
    /\ reqs[r].op = "delete"
    /\ \/ write_raised(r)
       \/ /\ ~ reqs[r].fault
          /\ coll' = delete_one(coll, {reqs[r].id})
          /\ last' = Reply("delete", reqs[r].sub, reqs[r].id, Empty,
                           write_status("delete", FALSE, FALSE), {})
          /\ reqs' = Without(reqs, r)
          /\ UNCHANGED <<rtype, nextId, users, nextUid, now, born>>

\* the store fails the write a suspended call is waiting for
store_fault(r) ==
    /\ reqs[r].pc = "write" /\ ~ reqs[r].fault
    /\ reqs' = [reqs EXCEPT ![r].fault = TRUE]
    /\ UNCHANGED <<rtype, coll, nextId, users, nextUid, now, last, born>>

RaceCreates == {Pick(FullBody("a", "x"), {"name"})}

\* a patch that names another owner
RacePatches == {Pick(FullBody("b", "x"), {"name", "owner"})}

NextRace ==
    \/ CallCreateUser(Usernames, {"pw1"}, {"s1"})
    \/ /\ \E raw \in RaceCreates : create_begin("alice", raw)
       /\ UNCHANGED auth
    \/ /\ \E r \in DOMAIN reqs : create_finish(r)
       /\ UNCHANGED auth
    \/ /\ \E sub \in Usernames, raw \in RacePatches : update_begin(sub, 1, raw)
       /\ UNCHANGED auth
    \/ /\ \E r \in DOMAIN reqs : update_write(r)
       /\ UNCHANGED auth
    \/ /\ \E r \in DOMAIN reqs : update_finish(r)
       /\ UNCHANGED auth
    \/ /\ \E sub \in Usernames : delete_begin(sub, 1)
       /\ UNCHANGED auth
    \/ /\ \E r \in DOMAIN reqs : delete_finish(r)
       /\ UNCHANGED auth
    \/ /\ \E r \in DOMAIN reqs : store_fault(r)
       /\ UNCHANGED auth

SpecRace == Init /\ [][NextRace]_vars

(***************************************************************************)
(* SpecAuth: registration, login and calls that present an issued token    *)
(***************************************************************************)
\* the call carries the header Authorization: Bearer tok
Presenting(tok) == bearer' = tok /\ UNCHANGED tokens

AuthCreate(bodies) ==
    \E tok \in tokens, raw \in bodies :
        /\ Presenting(tok)
        /\ \/ Unauthenticated("create", tok, NoId, raw)
           \/ verify(tok, now) = "ok" /\ create(tok.sub, raw)

AuthGet(ids) ==
    \E tok \in tokens, id \in ids :
        /\ Presenting(tok)
        /\ \/ Unauthenticated("get", tok, id, Empty)
           \/ verify(tok, now) = "ok" /\ get(tok.sub, id)

AuthList(limits) ==
    \E tok \in tokens, n \in limits :
        /\ Presenting(tok)
        /\ \/ Unauthenticated("list", tok, NoId, Empty)
           \/ verify(tok, now) = "ok" /\ list(tok.sub, n)

AuthUpdate(ids, bodies) ==
    \E tok \in tokens, id \in ids, raw \in bodies :
        /\ Presenting(tok)
        /\ \/ Unauthenticated("update", tok, id, raw)
           \/ verify(tok, now) = "ok" /\ update(tok.sub, id, raw)

AuthDelete(ids) ==
    \E tok \in tokens, id \in ids :
        /\ Presenting(tok)
        /\ \/ Unauthenticated("delete", tok, id, Empty)
           \/ verify(tok, now) = "ok" /\ delete(tok.sub, id)

AuthUpdateUser(ids, bodies, salts) ==
    \E tok \in tokens, id \in ids, raw \in bodies, salt \in salts :
        /\ Presenting(tok)
        /\ \/ Unauthenticated("update_user", tok, id, raw)
           \/ verify(tok, now) = "ok" /\ update_user(tok.sub, id, raw, salt)

AuthDeleteUser(ids) ==
    \E tok \in tokens, id \in ids :
        /\ Presenting(tok)
        /\ \/ Unauthenticated("delete_user", tok, id, Empty)
           \/ verify(tok, now) = "ok" /\ delete_user(tok.sub, id)

Login(names, passwords) ==
    \E u \in names, p \in passwords : login_for_access_token(u, p)

AuthCreates == {Pick(FullBody("a", "x"), {"name"})}

AuthRenames == {Pick(FullBody("b", "x"), {"name"})}

AuthUserPatches ==
    {Pick(FullUserBody("pw2"), {"disabled"}),
     Pick(FullUserBody("pw2"), {"username"})}

NextAuth ==
    \/ CallCreateUser(Usernames, {"pw1"}, {"s1"})
    \/ Login(Usernames, {"pw1"})
    \/ AuthCreate(AuthCreates)
    \/ AuthGet({1})
    \/ AuthList({DefaultLimit})
    \/ AuthUpdate({1}, AuthRenames)
    \/ AuthDelete({1})
    \/ AuthUpdateUser(1 .. MaxUid, AuthUserPatches, {"s1"})
    \/ AuthDeleteUser(1 .. MaxUid)

\* the gate runs before the handler body of every resource type: one type
\* stands for all
InitAuth == Init /\ rtype = "project"

SpecAuth == InitAuth /\ [][NextAuth]_vars

(***************************************************************************)
(* SpecLogin: registration, login with right and wrong passwords, the      *)
(* clock, and calls that present an issued token                           *)
(***************************************************************************)
\* time passes between two calls, up to the end of a token's lifetime and
\* beyond
Wait ==
    /\ now < MaxClock
    /\ now' = now + 1
    /\ UNCHANGED <<rtype, coll, nextId, users, nextUid, last, born, reqs>>
    /\ UNCHANGED auth

NextLogin ==
    \/ CallCreateUser(Usernames, {"pw1"}, {"s1"})
    \/ Login(Usernames, Passwords)
    \/ AuthCreate(AuthCreates)
    \/ AuthGet(1 .. MaxId)
    \/ AuthDeleteUser(1 .. MaxUid)
    \/ Wait

SpecLogin == Init /\ [][NextLogin]_vars

(***************************************************************************)
(* SpecUsers: registration, profile updates and account deletion           *)
(***************************************************************************)
UsersPatches ==
    {[username |-> "alice"], [username |-> "Alice"],
     [password |-> "pw2"], [password |-> ""], [password |-> "null"]}

NextUsers ==
    \/ CallCreateUser({"alice", "Bob"}, {"pw1"}, {"s1"})
    \/ CallUpdateUser(Usernames, 1 .. MaxUid, UsersPatches, {"s1"})
    \/ CallDeleteUser(Usernames, Uids)

SpecUsers == Init /\ [][NextUsers]_vars

(***************************************************************************)
(* SpecHash: the password hasher applied to the hashes the users           *)
(* collection holds and to strings that are no hashes                      *)
(***************************************************************************)
\* the empty string, a truncated hash and arbitrary text
Malformed == {Plain(""), Plain("$2b$12$N9qo8uLO"), Plain("hello")}

\* what the users collection can hold as a password: outputs of the
\* hasher and the values update_user stores unhashed
StoredPasswords == {users[i].password : i \in DOMAIN users}

HashPatches == {[password |-> "pw2"], [password |-> ""], [password |-> "null"]}

\* one application of verify_password
CallVerify(plains, hashes) ==
    /\ \E plain_password \in plains, hashed_password \in hashes :
         last' = Reply("verify", "", NoId,
                       [plain_password |-> plain_password,
                        hashed_password |-> hashed_password],
                       0,
                       {<<NoId, [result |->
                            verify_password(plain_password, hashed_password)]>>})
    /\ UNCHANGED <<rtype, coll, nextId, users, nextUid, now, born, reqs>>
    /\ UNCHANGED auth

NextHash ==
    \/ CallCreateUser({"alice"}, {"pw1"}, Salts)
    \/ CallUpdateUser({"alice"}, 1 .. MaxUid, HashPatches, {"s1"})
    \/ CallVerify(Passwords, StoredPasswords \cup Malformed)
    \/ Login({"alice"}, Passwords)

SpecHash == Init /\ [][NextHash]_vars

(***************************************************************************)
(* SpecAccounts: accounts come and go while the records they created stay  *)
(***************************************************************************)
NextAccounts ==
    \/ CallCreateUser(Usernames, {"pw1"}, {"s1"})
    \/ CallCreate(Usernames, AuthCreates)
    \/ CallGet(Usernames, {1})
    \/ CallList(Usernames, {DefaultLimit})
    \/ CallUpdate(Usernames, {1}, AuthRenames)
    \/ CallDelete(Usernames, {1})
    \/ CallUpdateUser(Usernames, 1 .. MaxUid, {[username |-> "alice"]}, {"s1"})
    \/ CallDeleteUser(Usernames, 1 .. MaxUid)

\* one resource type for each way GET / starts that can answer 200
InitAccounts == Init /\ rtype \in {"award", "interest", "project"}

SpecAccounts == InitAccounts /\ [][NextAccounts]_vars

(***************************************************************************)
(* Properties                                                              *)
(***************************************************************************)
\* a step in which a handler answered
Called == last' # last \/ coll' # coll \/ users' # users

\* the statuses of the Forbidden outcome
ForbiddenStatuses == {401, 403}

\* C1: a stored record is closed to every principal but its owner: get,
\* update and delete by another principal end with the Forbidden outcome,
\* return nothing of the record and leave the store as it was, and the
\* owner's calls succeed.
C1_OwnershipIsolation ==
    [][\A id \in DOMAIN coll :
        ( /\ Called
          /\ last'.op \in {"get", "update", "delete"}
          /\ last'.id = id
          /\ get_current_user(users, last'.sub) = "ok" )
        => IF coll[id].owner # last'.sub
           THEN /\ last'.status \in ForbiddenStatuses
                /\ last'.body = {}
                /\ coll' = coll
           ELSE last'.status \in {200, 204}]_vars

\* C2: the owner of every stored record is the principal whose create call
\* wrote it, whatever updates were called since.
C2_OwnerImmutable ==
    \A id \in DOMAIN coll : coll[id].owner = born.res[id].owner

\* an update carrying an owner key was applied and the owner is still the
\* creator, not the owner named in the body
C2_Witness ==
    /\ last.op = "update" /\ last.status = 200
    /\ "owner" \in DOMAIN last.raw
    /\ coll[last.id].owner = last.sub
    /\ coll[last.id].owner # last.raw.owner
    /\ coll[last.id].name = last.raw.name

\* C3: a list that succeeds returns records of the caller only, and all of
\* them unless the limit of the project list cuts them short.
C3_ListOwnedOnly ==
    (last.op = "list" /\ last.status = 200) =>
        LET mine == Body(coll, OwnedIds(coll, last.sub))
            cut == /\ rtype = "project"
                   /\ last.raw.limits # 0
                   /\ last.raw.limits < Cardinality(mine)
        IN  /\ \A b \in last.body : b[2].owner = last.sub
            /\ last.body \subseteq mine
            /\ ~ cut => last.body = mine
            /\ cut => Cardinality(last.body) = last.raw.limits

\* a list answered with the caller's record while the collection also holds
\* a record of the other principal
C3_Witness ==
    /\ last.op = "list" /\ last.status = 200
    /\ last.body # {}
    /\ \E id \in DOMAIN coll : coll[id].owner # last.sub

\* C4: a list called by an existing principal who owns no record of the
\* type answers with the empty sequence or with 404, nothing else.
C4_EmptyListOr404 ==
    ( /\ last.op = "list"
      /\ get_current_user(users, last.sub) = "ok"
      /\ OwnedIds(coll, last.sub) = {} )
    => \/ last.status = 200 /\ last.body = {}
       \/ last.status = 404

\* C5: a successful update is a merge: the fields named in the request
\* body take the values of the body, every field the body omits keeps its
\* stored value, only updated_at changes besides, and no other record is
\* touched.
C5_MergePatch ==
    [][(Called /\ last'.op = "update" /\ last'.status = 200) =>
        LET id == last'.id
            raw == last'.raw
        IN  /\ DOMAIN coll' = DOMAIN coll
            /\ \A j \in (DOMAIN coll) \ {id} : coll'[j] = coll[j]
            /\ DOMAIN coll'[id] = DOMAIN coll[id]
            /\ \A k \in DOMAIN coll[id] :
                /\ (k \notin DOMAIN raw /\ k # "updated_at")
                      => coll'[id][k] = coll[id][k]
                /\ (k \in DOMAIN raw /\ k \in {"name", "aux"})
                      => coll'[id][k] = raw[k]]_vars

\* an update that names only the first field was applied to a record whose
\* second field holds a value other than the default of the update schema
C5_Witness ==
    /\ last.op = "update" /\ last.status = 200
    /\ DOMAIN last.raw = {"name"}
    /\ coll[last.id].name = last.raw.name
    /\ coll[last.id].aux = "x"

\* C6: a successful update stores the server time of the update in
\* updated_at, with or without an updated_at in the request body, and never
\* an earlier time than the one stored before.
C6_UpdatedAtIsNow ==
    [][(Called /\ last'.op = "update" /\ last'.status = 200) =>
        /\ coll'[last'.id].updated_at = now
        /\ coll'[last'.id].updated_at >= coll[last'.id].updated_at]_vars

\* an update whose body carried its own updated_at was applied after the
\* clock had advanced past the creation of the record
C6_Witness ==
    /\ last.op = "update" /\ last.status = 200
    /\ "updated_at" \in DOMAIN last.raw
    /\ last.raw.updated_at # now
    /\ coll[last.id].updated_at = now
    /\ coll[last.id].created_at < now

\* C7: created_at of every stored record and of every stored user is the
\* time its create call wrote.
C7_CreatedAtImmutable ==
    /\ \A id \in DOMAIN coll : coll[id].created_at = born.res[id].created_at
    /\ \A id \in DOMAIN users : users[id].created_at = born.usr[id].created_at

\* a user update whose body carried created_at was applied, and a record
\* has been updated as well
C7_Witness ==
    /\ last.op = "update_user" /\ last.status = 200
    /\ "created_at" \in DOMAIN last.raw
    /\ users[last.id].created_at # last.raw.created_at
    /\ users[last.id].updated_at = now
    /\ \E id \in DOMAIN coll : coll[id].updated_at > coll[id].created_at

\* a document without the given fields
Strip(doc, D) == [k \in (DOMAIN doc) \ D |-> doc[k]]

\* the document the last call was about, before and after the step
Target(c, u, call) == IF call.op = "update" THEN c[call.id] ELSE u[call.id]

\* C8 as stated: a non-empty patch applied a second time right after the
\* first leaves the record, updated_at aside, as the first application left
\* it.
C8_PatchTwiceSameRecord ==
    [][(Called /\ last'.again /\ last'.raw # Empty) =>
        Strip(Target(coll', users', last'), {"updated_at"})
            = Strip(Target(coll, users, last'), {"updated_at"})]_vars

\* the fields a second application may change: updated_at, and the password
\* hash of a user when the patch carries a password to hash
Resalted(call) ==
    IF /\ call.op = "update_user"
       /\ "password" \in DOMAIN call.raw
       /\ call.raw.password \notin {"", "null"}
    THEN {"updated_at", "password"}
    ELSE {"updated_at"}

\* C8 amended: a non-empty patch applied a second time right after the
\* first leaves the record as the first application left it, updated_at
\* aside and, for a user whose patch carries a password, the salted hash of
\* that password aside.
C8_PatchTwiceSameButHash ==
    [][(Called /\ last'.again /\ last'.raw # Empty) =>
        Strip(Target(coll', users', last'), Resalted(last'))
            = Strip(Target(coll, users, last'), Resalted(last'))]_vars

\* the same renaming patch was applied twice in a row to a record
C8_Witness ==
    /\ last.again /\ last.op = "update"
    /\ "name" \in DOMAIN last.raw
    /\ coll[last.id].name = last.raw.name
    /\ coll[last.id].updated_at > coll[last.id].created_at

\* the uniqueness key of each resource type
SharesKey(t, d, e) ==
    CASE t = "experience" -> d.name = e.name /\ d.aux = e.aux
      [] t = "basicinfo" -> d.name = e.name \/ d.aux = e.aux
      [] OTHER -> d.name = e.name

\* the key fields a create request asks for
Asked(raw) ==
    [name |-> raw.name, aux |-> IF "aux" \in DOMAIN raw THEN raw.aux ELSE ""]

\* C9: a create whose key matches a stored record answers 409 and leaves
\* the store as it was.
C9_ConflictLeavesStore ==
    [][( /\ Called
         /\ last'.op = "create"
         /\ get_current_user(users, last'.sub) = "ok"
         /\ \E i \in DOMAIN coll : SharesKey(rtype, coll[i], Asked(last'.raw)) )
        => /\ last'.status = 409
           /\ coll' = coll
           /\ nextId' = nextId]_vars

\* a create was refused with 409 and the record it collided with is stored
C9_Witness ==
    /\ last.op = "create" /\ last.status = 409
    /\ \E i \in DOMAIN coll : SharesKey(rtype, coll[i], Asked(last.raw))

\* C10: however create calls overlap, no two stored records share the
\* uniqueness key of their type, and no two stored users a username.
C10_NoDuplicateUnderOverlap ==
    /\ \A i, j \in DOMAIN coll : i # j => ~ SharesKey(rtype, coll[i], coll[j])
    /\ \A i, j \in DOMAIN users : i # j => users[i].username # users[j].username

\* C11: a successful delete removes the record with the given id and
\* nothing else: every other record, of any owner, and every user is as it
\* was.
C11_DeleteRemovesOne ==
    [][(Called /\ last'.op = "delete" /\ last'.status = 204) =>
        /\ last'.id \in DOMAIN coll
        /\ DOMAIN coll' = (DOMAIN coll) \ {last'.id}
        /\ \A j \in DOMAIN coll' : coll'[j] = coll[j]
        /\ users' = users]_vars

\* a record was deleted while its owner has another record stored
C11_Witness ==
    /\ last.op = "delete" /\ last.status = 204
    /\ last.id \notin DOMAIN coll
    /\ \E j \in DOMAIN coll : coll[j].owner = last.sub

\* the ids of the records that were created and then deleted
Deleted == (DOMAIN born.res) \ (DOMAIN coll)

\* C12: a deleted id stays deleted: no step stores a record under it again,
\* and get, update and delete of it by any authenticated principal answer
\* 404 and change nothing.
C12_DeletedIsTerminal ==
    [][\A id \in Deleted :
        /\ id \notin DOMAIN coll'
        /\ ( /\ Called
             /\ last'.op \in {"get", "update", "delete"}
             /\ last'.id = id
             /\ get_current_user(users, last'.sub) = "ok" )
           => (last'.status = 404 /\ coll' = coll)]_vars

\* a call on a deleted id was answered 404 after a later create had stored
\* a record under a new id
C12_Witness ==
    /\ last.op \in {"get", "update", "delete"} /\ last.status = 404
    /\ last.id \in Deleted
    /\ \E j \in DOMAIN coll : j > last.id

\* the operations behind the auth gate
GatedOps ==
    {"create", "get", "list", "update", "delete", "update_user", "delete_user"}

\* the body of a response that carries only a detail
Detail(d) == {<<NoId, [detail |-> d]>>}

\* C13: a login that fails because the username is unknown and a login that
\* fails because the password is wrong get the same response, 403 with
\* detail "Invalid credentials." and header WWW-Authenticate: Bearer, and
\* neither issues a token.
C13_LoginFailureUniform ==
    [][(Called /\ last'.op = "login") =>
        LET name == username_to_lower(last'.raw.username)
            unknown == UsersNamed(users, name) = {}
            wrong == /\ ~ unknown
                     /\ verify_password(last'.raw.password,
                            users[FirstUser(users, name)].password) = "False"
        IN  (unknown \/ wrong) =>
              /\ last'.status = 403
              /\ last'.body = {<<NoId, [detail |-> "Invalid credentials.",
                                        header |-> "Bearer"]>>}
              /\ tokens' = tokens]_vars

\* a login with a wrong password for a registered username was refused
\* after a login with the right one had been given a token
C13_Witness ==
    /\ last.op = "login" /\ last.status = 403
    /\ UsersNamed(users, last.raw.username) # {}
    /\ \E tok \in tokens : tok.sub = last.raw.username

C15_SevenDays ==
    \A tok \in tokens : tok.exp - tok.iat = 604800

\* a login issued a token after the clock had advanced
C15_Witness ==
    /\ last.op = "login" /\ last.status = 200
    /\ \E tok \in tokens : tok.iat = Seconds(now) /\ tok.iat > Seconds(1)

\* C16: a call that presents a token issued to an account that has since
\* been deleted is refused by the gate and executes nothing.
C16_DeletedAccountLocked ==
    [][\A tok \in tokens :
        ( /\ tok.uid \notin DOMAIN users
          /\ Called /\ last'.op \in GatedOps /\ bearer' = tok )
        => /\ last'.status = 401
           /\ last'.body \in {Detail("PrincipalNotFound"),
                               Detail("AccountDisabled"), Detail("Expired")}
           /\ coll' = coll /\ users' = users]_vars

\* C17: a call that presents an unexpired token issued to an account whose
\* disabled flag is set is refused by the gate and executes nothing.
C17_DisabledLocked ==
    [][\A tok \in tokens :
        ( /\ tok.uid \in DOMAIN users
          /\ users[tok.uid].disabled
          /\ verify(tok, now) = "ok"
          /\ Called /\ last'.op \in GatedOps /\ bearer' = tok )
        => /\ last'.status = 401
           /\ last'.body \in {Detail("AccountDisabled"),
                               Detail("PrincipalNotFound")}
           /\ coll' = coll /\ users' = users]_vars

\* C18: no two stored users have the same username.
C18_UniqueUsernames ==
    \A i, j \in DOMAIN users : i # j => users[i].username # users[j].username

\* C19: every stored username is in lowercase.
C19_LowercaseUsernames ==
    \A i \in DOMAIN users : users[i].username = username_to_lower(users[i].username)

\* C20: the stored password of every user is an output of the password
\* hasher.
C20_PasswordsHashed ==
    \A i \in DOMAIN users : users[i].password.hashed

\* C21: get, update and delete answer 400 for a malformed id, 404 for a
\* well-formed id that has no record, whoever calls, and the Forbidden
\* status only for a record that exists and belongs to someone else; a
\* call answered 400 or 404 leaves the store as it was.
C21_CheckOrder ==
    [][( /\ Called
         /\ last'.op \in {"get", "update", "delete"}
         /\ get_current_user(users, last'.sub) = "ok" ) =>
        LET id == last'.id
        IN  /\ id = BadId => last'.status = 400
            /\ (id # BadId /\ id \notin DOMAIN coll) => last'.status = 404
            /\ last'.status \in ForbiddenStatuses \cup {OwnerMismatchStatus(rtype)}
                  => (id \in DOMAIN coll /\ coll[id].owner # last'.sub)
            /\ last'.status \in {400, 404} => coll' = coll]_vars

\* a call on an id without a record was answered 404 while the collection
\* holds a record of another principal
C21_Witness ==
    /\ last.op \in {"get", "update", "delete"} /\ last.status = 404
    /\ last.id \notin DOMAIN coll
    /\ \E j \in DOMAIN coll : coll[j].owner # last.sub

\* C22: a successful create stores exactly one new record, owned by the
\* caller whatever owner the payload names, with created_at and updated_at
\* holding the same instant.
C22_CreateStampsOnce ==
    [][(Called /\ last'.op = "create" /\ last'.status = 201) =>
        LET id == last'.id
        IN  /\ id \notin DOMAIN coll
            /\ DOMAIN coll' = (DOMAIN coll) \cup {id}
            /\ \A j \in DOMAIN coll : coll'[j] = coll[j]
            /\ coll'[id].owner = last'.sub
            /\ coll'[id].created_at = coll'[id].updated_at]_vars

\* C23: get, update and delete of a record that belongs to someone else
\* answer the one status of the resource type, and that status is 401 or
\* 403.
C23_ForbiddenStatus ==
    [][( /\ Called
         /\ last'.op \in {"get", "update", "delete"}
         /\ get_current_user(users, last'.sub) = "ok"
         /\ last'.id \in DOMAIN coll
         /\ coll[last'.id].owner # last'.sub )
        => /\ last'.status = OwnerMismatchStatus(rtype)
           /\ last'.status \in {401, 403}]_vars


\* C26: after any sequential run of create, update and delete calls, no
\* two stored records of the collection share the uniqueness key of their
\* type.
C26_NoDuplicateKeys ==
    \A i \in DOMAIN coll : \A j \in DOMAIN coll :
        i < j => ~ SharesKey(rtype, coll[i], coll[j])

\* the status create gives when find_one only looks at the caller's records
OwnOutcome(c, sub, raw) ==
    IF \E i \in OwnedIds(c, sub) : SharesKey(rtype, c[i], Asked(raw))
    THEN 409 ELSE 201

\* C27: the outcome of a create call is a function of the payload and of
\* the records the caller owns: records of other principals do not change
\* it.
C27_CreateSeesOwnRecordsOnly ==
    [][( /\ Called
         /\ last'.op = "create"
         /\ get_current_user(users, last'.sub) = "ok" )
        => last'.status = OwnOutcome(coll, last'.sub, last'.raw)]_vars

\* C28: a record is read, listed, changed or removed only through the
\* account that created it: a call acting for any other account, whatever
\* its username, neither succeeds on the record nor is shown it.
C28_CreatorAccountOnly ==
    [][( /\ Called
         /\ last'.op \in {"get", "list", "update", "delete"}
         /\ get_current_user(users, last'.sub) = "ok" ) =>
        LET acct == Account(users, last'.sub)
        IN  /\ ( /\ last'.op # "list"
                 /\ last'.id \in DOMAIN coll
                 /\ born.res[last'.id].uid # acct )
                => (last'.status \notin {200, 204} /\ coll' = coll)
            /\ (last'.op = "list" /\ last'.status = 200)
                => \A e \in last'.body : born.res[e[1]].uid = acct]_vars

\* C24: when the store write of a create, update or delete raises, the call
\* answers 500 and stores nothing; and an update answers 200 only if its
\* write matched the record.
C24_FailedWriteNeverSuccess ==
    [][\A r \in DOMAIN reqs :
        (r \notin DOMAIN reqs' /\ reqs[r].op \in {"create", "update", "delete"}) =>
            /\ reqs[r].fault =>
                  (last'.status = 500 /\ coll' = coll /\ nextId' = nextId)
            /\ (reqs[r].op = "update" /\ ~ reqs[r].fault /\ ~ reqs[r].matched)
                  => last'.status # Success("update")
            /\ last'.status \in {500, Success(reqs[r].op)}]_vars

\* an update was answered 500 because its write raised: the record it
\* aimed at is still stored
C24_Witness ==
    /\ last.op = "update" /\ last.status = 500
    /\ last.id \in DOMAIN coll

\* an update was answered 500 because the record was gone when it wrote
C24_WitnessUnmatched ==
    /\ last.op = "update" /\ last.status = 500
    /\ last.id \notin DOMAIN coll

\* C29: of the delete calls for one id that overlap, only the one whose
\* delete_one removes the record answers 204.
C29_OneDeleteSucceeds ==
    [][( /\ Called /\ last' # last
         /\ last'.op = "delete" /\ last'.status = 204 )
        => (last'.id \in DOMAIN coll /\ last'.id \notin DOMAIN coll')]_vars

\* the records a step changes or removes
Touched == {i \in DOMAIN coll : i \notin DOMAIN coll' \/ coll'[i] # coll[i]}

\* the step is the store write of the suspended update or delete r
Writes(r) ==
    /\ reqs[r].op \in {"update", "delete"}
    /\ reqs[r].pc = "write"
    /\ ~ reqs[r].fault
    /\ \/ r \notin DOMAIN reqs'
       \/ r \in DOMAIN reqs' /\ reqs'[r].pc = "reply"

\* C30: however requests interleave, the write of an update or delete made
\* for principal P touches only the record with the id of the call, and
\* that record is owned by P at the moment of the write.
C30_WriteOnlyOwnRecord ==
    [][\A r \in DOMAIN reqs :
        Writes(r) => \A i \in Touched :
                        i = reqs[r].id /\ coll[i].owner = reqs[r].sub]_vars

\* an update has written while a delete of the same record, which passed
\* its ownership read earlier, is still to write
C30_Witness ==
    \E r \in DOMAIN reqs : \E q \in DOMAIN reqs :
        /\ reqs[r].op = "update" /\ reqs[r].pc = "reply" /\ reqs[r].matched
        /\ reqs[q].op = "delete" /\ reqs[q].pc = "write"
        /\ reqs[q].id = reqs[r].id
        /\ reqs[r].id \in DOMAIN coll

\* C25: verify_password answers False, and does not raise, for every hash
\* string that is not an output of the hasher: the empty string, a
\* truncated hash, arbitrary text.
C25_VerifyNeverRaises ==
    [][( /\ Called /\ last'.op = "verify"
         /\ ~ last'.raw.hashed_password.hashed
         /\ last'.raw.hashed_password.plain # "null" )
        => last'.body = {<<NoId, [result |-> "False"]>>}]_vars

====
